---- MODULE Spec2Model ----
(***************************************************************************)
(* Model of the dice-placement game engine of dice-game-sim:               *)
(* Board (flat cell store, insert with bumping, capacity queries, scores), *)
(* the two strategies and the Game turn state machine.                     *)
(*                                                                         *)
(* Cells are Option<usize>: None is modelled as 0, Some(v) as v >= 1.      *)
(* Slices and the cell store keep the source's 0-based indices.            *)
(***************************************************************************)
EXTENDS Integers, Sequences, FiniteSets, TLC

VARIABLES
    board,          \* Game.board: [data, columns, rows]
    state,          \* Game.state: "Starting", "RedsTurn", "BluesTurn", "Done"
    strategy_red,   \* Game.strategy_red
    strategy_blue,  \* Game.strategy_blue
    panicked,       \* the panic that aborted the process, or NoPanic
    turns,          \* history: turns taken (strategy call + insert) so far
    bumps,          \* history: opponent cells cleared by inserts so far
    idle_calls,     \* history: advance() calls made while Done
    last,           \* history: the last insert call and what it cleared
    call,           \* history: the last query or strategy call and its outcome
    tally           \* the simulation driver: workers' TotalWins and main's result

vars == <<board, state, strategy_red, strategy_blue, panicked,
          turns, bumps, idle_calls, last, call, tally>>

(***************************************************************************)
(* Bounds.  Game::new builds a 3 x 3 board and rolls 1..=6; the model      *)
(* checks a smaller board and die.  ExtraTurns is how many turns beyond    *)
(* 2 * columns * rows a counted game is followed, MaxIdleCalls how many    *)
(* advance() calls are made on a finished game.                            *)
(***************************************************************************)
Columns == 2
Rows == 2
Faces == 2
ExtraTurns == 2
MaxIdleCalls == 2

MaxTurns == 2 * Columns * Rows + ExtraTurns

None == 0
NoPanic == "none"
Teams == {"Red", "Blue"}
Strategies == {"strategy_random", "strategy_min_max"}
Rolls == 1..Faces

Opponent(team) == IF team = "Red" THEN "Blue" ELSE "Red"

(***************************************************************************)
(* Board                                                                   *)
(***************************************************************************)
empty_board(columns, rows) ==
    [data |-> [i \in 0..(rows * columns * 2 - 1) |-> None],
     columns |-> columns,
     rows |-> rows]

DataLen(b) == Cardinality(DOMAIN b.data)

get_board_half(b, team) ==
    LET split_point == b.rows * b.columns
    IN  IF team = "Red"
        THEN [i \in 0..(split_point - 1) |-> b.data[i]]
        ELSE [i \in 0..(DataLen(b) - split_point - 1) |-> b.data[split_point + i]]

get_column(b, team, column) ==
    LET board_half == get_board_half(b, team)
        offset == column * b.rows
    IN  [i \in 0..(b.rows - 1) |-> board_half[offset + i]]

\* Faulty variant: the scan without its is_none test, so the last slot always wins.
scan_insertion_index_no_test(data, i, end_index, insertion_index) == end_index - 1

\* Faulty variant: the scan stopping at the first empty index it meets.
scan_insertion_index_first_empty(data, i, end_index, insertion_index) ==
    LET empties == {j \in i..(end_index - 1) : data[j] = None}
    IN  IF empties = {}
        THEN insertion_index
        ELSE CHOOSE m \in empties : \A n \in empties : m <= n

\* The scan of insert: the loop keeps the last empty index it meets.
RECURSIVE scan_insertion_index(_, _, _, _)
scan_insertion_index(data, i, end_index, insertion_index) ==
    IF i >= end_index
    THEN insertion_index
    ELSE scan_insertion_index(data, i + 1, end_index,
                              IF data[i] = None THEN i ELSE insertion_index)

\* Faulty variant: insert without its bump loop.
bump_nothing(data, start_index, end_index, roll) == data

\* Faulty variant: the bump loop stopping at the first match.
bump_first_match_only(data, start_index, end_index, roll) ==
    LET matches == {i \in start_index..(end_index - 1) : data[i] = roll}
    IN  [i \in DOMAIN data |->
            IF matches # {} /\ i = CHOOSE m \in matches : \A n \in matches : m <= n
            THEN None
            ELSE data[i]]

\* The bump loop of insert over the opponent's mirrored column.
bump(data, start_index, end_index, roll) ==
    [i \in DOMAIN data |->
        IF i >= start_index /\ i < end_index /\ data[i] = roll
        THEN None
        ELSE data[i]]

\* Faulty variant: insert without its assertion on column; an index past the
\* store panics where the store is indexed, after the writes made so far.
insert_no_assert(b, team, column, roll) ==
    LET team_offset == IF team = "Red" THEN 0 ELSE b.columns * b.rows
        opponent_team_offset == IF team = "Red" THEN b.columns * b.rows ELSE 0
        start_index == team_offset + column * b.rows
        end_index == start_index + b.rows
        opp_start_index == opponent_team_offset + column * b.rows
        opp_end_index == opp_start_index + b.rows
    IN  IF end_index > DataLen(b)
        THEN [board |-> b, panic |-> "index out of bounds"]
        ELSE LET insertion_index ==
                     scan_insertion_index(b.data, start_index, end_index, -1)
             IN  IF insertion_index = -1
                 THEN [board |-> b, panic |-> "Collumn does not have a free space!"]
                 ELSE IF opp_end_index > DataLen(b)
                      THEN [board |-> [b EXCEPT !.data[insertion_index] = roll],
                            panic |-> "index out of bounds"]
                      ELSE [board |-> [b EXCEPT !.data =
                                          bump([b.data EXCEPT ![insertion_index] = roll],
                                               opp_start_index, opp_end_index, roll)],
                            panic |-> NoPanic]

\* insert returns the board it leaves and the panic it raised, if any.
\* -1 stands for insertion_index = None.
insert(b, team, column, roll) ==
    IF ~(column < b.columns)
    THEN [board |-> b, panic |-> "assertion failed: column < self.columns"]
    ELSE
      LET team_offset == IF team = "Red" THEN 0 ELSE b.columns * b.rows
          opponent_team_offset == IF team = "Red" THEN b.columns * b.rows ELSE 0
          start_index == team_offset + column * b.rows
          end_index == start_index + b.rows
          insertion_index == scan_insertion_index(b.data, start_index, end_index, -1)
          opp_start_index == opponent_team_offset + column * b.rows
          opp_end_index == opp_start_index + b.rows
      IN  IF insertion_index = -1
          THEN [board |-> b, panic |-> "Collumn does not have a free space!"]
          ELSE [board |-> [b EXCEPT !.data =
                              bump([b.data EXCEPT ![insertion_index] = roll],
                                   opp_start_index, opp_end_index, roll)],
                panic |-> NoPanic]

\* Faulty variant: the loop of has_space returning on its first cell, empty or not.
has_space_first_cell(b, team, column) == get_column(b, team, column)[0] = None

has_space(b, team, column) ==
    LET col == get_column(b, team, column)
    IN  \E i \in DOMAIN col : col[i] = None

\* Faulty variant: the loop of is_board_side_filled returning after its first column.
is_board_side_filled_first_column(b, team) == ~ has_space(b, team, 0)

\* The loop of is_board_side_filled from column i on: false at the first
\* column with space, true when the columns are exhausted.
RECURSIVE no_space_from(_, _, _)
no_space_from(b, team, i) ==
    IF i >= b.columns
    THEN TRUE
    ELSE IF has_space(b, team, i)
         THEN FALSE
         ELSE no_space_from(b, team, i + 1)

is_board_side_filled(b, team) == no_space_from(b, team, 0)

\* The HashMap that calculate_column_score builds: every face value held by
\* the column, mapped to the number of cells holding it.
count_rolls(col) ==
    [num \in {col[i] : i \in DOMAIN col} \ {None} |->
        Cardinality({i \in DOMAIN col : col[i] = num})]

\* Faulty variant: a face value scored once per occurrence.
entry_score_linear(num, count) == num * count

\* score += entry.0 * entry.1 * entry.1
entry_score(num, count) == num * count * count

RECURSIVE sum_entries(_, _)
sum_entries(rolls, keys) ==
    IF keys = {}
    THEN 0
    ELSE LET num == CHOOSE k \in keys : TRUE
         IN  entry_score(num, rolls[num]) + sum_entries(rolls, keys \ {num})

calculate_column_score(b, team, column) ==
    LET col == get_column(b, team, column)
        rolls == count_rolls(col)
    IN  sum_entries(rolls, DOMAIN rolls)

RECURSIVE sum_columns(_, _, _)
sum_columns(b, team, i) ==
    IF i >= b.columns
    THEN 0
    ELSE calculate_column_score(b, team, i) + sum_columns(b, team, i + 1)

calculate_score(b, team) == sum_columns(b, team, 0)

(***************************************************************************)
(* Strategies (src/src/main.rs)                                            *)
(***************************************************************************)
TeamOf(st) == IF st = "RedsTurn" THEN "Red" ELSE "Blue"

RECURSIVE collect_valid_answers(_, _, _)
collect_valid_answers(b, team, i) ==
    IF i >= b.columns
    THEN <<>>
    ELSE (IF has_space(b, team, i) THEN <<i>> ELSE <<>>)
         \o collect_valid_answers(b, team, i + 1)

valid_answers(b, team) == collect_valid_answers(b, team, 0)

\* Faulty variant: the random index returned as the column.
strategy_random_returns_index(b, st, index) == index

\* index is the value drawn by thread_rng().gen_range(0..valid_answers.len()).
strategy_random(b, st, index) == valid_answers(b, TeamOf(st))[index + 1]

\* own score minus opposite score on one board
score_diff(b, team) == calculate_score(b, team) - calculate_score(b, Opponent(team))

\* Faulty variant: the improvement read off the acting side's score alone.
improvement_own_score_only(b, team, answer, roll) ==
    calculate_score(insert(b, team, answer, roll).board, team) - calculate_score(b, team)

\* The improvement min_max computes for one answer: future_diff - current_diff,
\* the future scores being read off board_copy, a clone with the roll inserted.
improvement(b, team, answer, roll) ==
    LET current_diff == score_diff(b, team)
        future_diff == CHOOSE d \in {score_diff(board_copy, team) :
                           board_copy \in {insert(b, team, answer, roll).board}} : TRUE
    IN  future_diff - current_diff

\* Faulty variant: the search replacing its best answer on an equal improvement.
RECURSIVE min_max_loop_not_strict(_, _, _, _, _, _, _)
min_max_loop_not_strict(b, team, roll, answers, k, best_answer, best_improvement) ==
    IF k > Len(answers)
    THEN best_answer
    ELSE LET imp == improvement(b, team, answers[k], roll)
         IN  IF imp >= best_improvement
             THEN min_max_loop_not_strict(b, team, roll, answers, k + 1, answers[k], imp)
             ELSE min_max_loop_not_strict(b, team, roll, answers, k + 1,
                                          best_answer, best_improvement)

\* Faulty variant: the search returning the first answer that beats the roll.
RECURSIVE min_max_loop_first_improving(_, _, _, _, _, _, _)
min_max_loop_first_improving(b, team, roll, answers, k, best_answer, best_improvement) ==
    IF k > Len(answers)
    THEN best_answer
    ELSE IF improvement(b, team, answers[k], roll) > best_improvement
         THEN answers[k]
         ELSE min_max_loop_first_improving(b, team, roll, answers, k + 1,
                                           best_answer, best_improvement)

RECURSIVE min_max_loop(_, _, _, _, _, _, _)
min_max_loop(b, team, roll, answers, k, best_answer, best_improvement) ==
    IF k > Len(answers)
    THEN best_answer
    ELSE LET imp == improvement(b, team, answers[k], roll)
         IN  IF imp > best_improvement
             THEN min_max_loop(b, team, roll, answers, k + 1, answers[k], imp)
             ELSE min_max_loop(b, team, roll, answers, k + 1,
                               best_answer, best_improvement)

strategy_min_max(b, st, roll, index) ==
    LET team == TeamOf(st)
        answers == valid_answers(b, team)
    IN  min_max_loop(b, team, roll, answers, 1, answers[index + 1], roll)

\* Every outcome a strategy call can have: the column it returns for each
\* value of the random index, or the panic it raises.
StrategyOutcomes(strategy, b, st, roll) ==
    IF st \notin {"RedsTurn", "BluesTurn"}
    THEN {[col |-> 0, panic |-> "Cannot take a turn in this game state."]}
    ELSE LET answers == valid_answers(b, TeamOf(st))
         IN  IF Len(answers) = 0
             THEN {[col |-> 0, panic |-> "cannot sample empty range"]}
             ELSE {[col |-> IF strategy = "strategy_random"
                            THEN strategy_random(b, st, index)
                            ELSE strategy_min_max(b, st, roll, index),
                    panic |-> NoPanic] : index \in 0..(Len(answers) - 1)}

(***************************************************************************)
(* Measures of a board, read directly off the cell store.                  *)
(***************************************************************************)
HalfIndices(b, team) ==
    IF team = "Red"
    THEN 0..(b.columns * b.rows - 1)
    ELSE (b.columns * b.rows)..(2 * b.columns * b.rows - 1)

ColumnIndices(b, team, column) ==
    LET first == (IF team = "Red" THEN 0 ELSE b.columns * b.rows) + column * b.rows
    IN  first..(first + b.rows - 1)

Filled(b, team) == Cardinality({i \in HalfIndices(b, team) : b.data[i] # None})

ColumnFilled(b, team, column) ==
    Cardinality({i \in ColumnIndices(b, team, column) : b.data[i] # None})

NoInsert == [team |-> "none", column |-> 0, roll |-> 0, cleared |-> 0]

\* No query or strategy call made yet.
NoCall ==
    [op |-> "none", st |-> "none", team |-> "none", column |-> 0, roll |-> 0,
     index |-> 0, space |-> FALSE, value |-> 0, touched |-> {}, panic |-> NoPanic]

\* The simulation driver before main has spawned a worker.
NoTally == [spawned |-> 0, joined |-> 0, workers |-> <<>>,
            result |-> [red_wins |-> 0, blue_wins |-> 0, ties |-> 0]]

\* The record of an insert call: its arguments and how many opponent cells
\* it cleared.
InsertRecord(b, after, team, column, roll) ==
    [team |-> team, column |-> column, roll |-> roll,
     cleared |-> Filled(b, Opponent(team)) - Filled(after, Opponent(team))]

(***************************************************************************)
(* Game                                                                    *)
(***************************************************************************)
\* Game::new
Init ==
    /\ board = empty_board(Columns, Rows)
    /\ state = "Starting"
    /\ strategy_red \in Strategies
    /\ strategy_blue \in Strategies
    /\ panicked = NoPanic
    /\ turns = 0
    /\ bumps = 0
    /\ idle_calls = 0
    /\ last = NoInsert
    /\ call = NoCall
    /\ tally = NoTally

Panic(msg) ==
    /\ panicked' = msg
    /\ UNCHANGED <<call, tally, board, state, strategy_red, strategy_blue,
                   turns, bumps, idle_calls, last>>

\* Faulty variant: the turn without its fill check, always handing over to the opponent.
TakeTurn_no_fill_check(team, strategy, next_state, counted) ==
    \E roll \in Rolls :
      \E s \in StrategyOutcomes(strategy, board, state, roll) :
        IF s.panic # NoPanic
        THEN Panic(s.panic)
        ELSE \E r \in {insert(board, team, s.col, roll)} :
                 IF r.panic # NoPanic
                 THEN Panic(r.panic)
                 ELSE /\ board' = r.board
                      /\ state' = next_state
                      /\ last' = InsertRecord(board, r.board, team, s.col, roll)
                      /\ turns' = IF counted THEN turns + 1 ELSE turns
                      /\ bumps' = IF counted THEN bumps + last'.cleared ELSE bumps
                      /\ UNCHANGED <<call, tally, strategy_red, strategy_blue, panicked, idle_calls>>

\* One turn of advance: roll, strategy, insert, fill check.  counted says
\* whether the history counters follow the game.
TakeTurn(team, strategy, next_state, counted) ==
    \E roll \in Rolls :
      \E s \in StrategyOutcomes(strategy, board, state, roll) :
        IF s.panic # NoPanic
        THEN Panic(s.panic)
        ELSE \E r \in {insert(board, team, s.col, roll)} :
                 IF r.panic # NoPanic
                 THEN Panic(r.panic)
                 ELSE /\ board' = r.board
                      /\ state' = IF is_board_side_filled(r.board, team)
                                  THEN "Done"
                                  ELSE next_state
                      /\ last' = InsertRecord(board, r.board, team, s.col, roll)
                      /\ turns' = IF counted THEN turns + 1 ELSE turns
                      /\ bumps' = IF counted THEN bumps + last'.cleared ELSE bumps
                      /\ UNCHANGED <<call, tally, strategy_red, strategy_blue, panicked, idle_calls>>

\* Faulty variant: the Starting arm without its coin toss, Red always moving first.
AdvanceStarting_red_first ==
    /\ panicked = NoPanic
    /\ state = "Starting"
    /\ state' = "RedsTurn"
    /\ UNCHANGED <<call, tally, board, strategy_red, strategy_blue, panicked,
                   turns, bumps, idle_calls, last>>

AdvanceStarting ==
    /\ panicked = NoPanic
    /\ state = "Starting"
    /\ \E coin_toss \in BOOLEAN :
         state' = IF coin_toss THEN "RedsTurn" ELSE "BluesTurn"
    /\ UNCHANGED <<call, tally, board, strategy_red, strategy_blue, panicked,
                   turns, bumps, idle_calls, last>>

AdvanceRedsTurn(counted) ==
    /\ panicked = NoPanic
    /\ state = "RedsTurn"
    /\ counted => turns < MaxTurns
    /\ TakeTurn("Red", strategy_red, "BluesTurn", counted)

AdvanceBluesTurn(counted) ==
    /\ panicked = NoPanic
    /\ state = "BluesTurn"
    /\ counted => turns < MaxTurns
    /\ TakeTurn("Blue", strategy_blue, "RedsTurn", counted)

\* Faulty variant: the Done arm merged with the Starting arm (a new coin toss).
AdvanceDone_tosses_coin(counted) ==
    /\ panicked = NoPanic
    /\ state = "Done"
    /\ counted => idle_calls < MaxIdleCalls
    /\ idle_calls' = IF counted THEN idle_calls + 1 ELSE idle_calls
    /\ \E coin_toss \in BOOLEAN :
         state' = IF coin_toss THEN "RedsTurn" ELSE "BluesTurn"
    /\ UNCHANGED <<call, tally, board, strategy_red, strategy_blue, panicked,
                   turns, bumps, last>>

AdvanceDone(counted) ==
    /\ panicked = NoPanic
    /\ state = "Done"
    /\ counted => idle_calls < MaxIdleCalls
    /\ idle_calls' = IF counted THEN idle_calls + 1 ELSE idle_calls
    /\ UNCHANGED <<call, tally, board, state, strategy_red, strategy_blue, panicked,
                   turns, bumps, last>>

\* advance() called again and again, the history counters following the game
\* for at most MaxTurns turns and MaxIdleCalls calls after the end.
Next ==
    \/ AdvanceStarting
    \/ AdvanceRedsTurn(TRUE)
    \/ AdvanceBluesTurn(TRUE)
    \/ AdvanceDone(TRUE)

Spec == Init /\ [][Next]_vars

\* run(): advance() is called as long as the state is not Done.  The history
\* counters stay put, so that a game of any length is a behaviour.
RunLoop ==
    \/ AdvanceStarting
    \/ AdvanceRedsTurn(FALSE)
    \/ AdvanceBluesTurn(FALSE)

RunSpec == Init /\ [][RunLoop]_vars /\ WF_vars(RunLoop)

(***************************************************************************)
(* Board under any caller: insert called with any side, any column index   *)
(* up to columns (one past the last column) and any roll.                  *)
(***************************************************************************)
BoardInit ==
    /\ board = empty_board(Columns, Rows)
    /\ state = "Starting"
    /\ strategy_red = "strategy_min_max"
    /\ strategy_blue = "strategy_random"
    /\ panicked = NoPanic
    /\ turns = 0
    /\ bumps = 0
    /\ idle_calls = 0
    /\ last = NoInsert
    /\ call = NoCall
    /\ tally = NoTally

BoardInsert ==
    /\ panicked = NoPanic
    /\ \E team \in Teams, column \in 0..Columns, roll \in Rolls :
         LET r == insert(board, team, column, roll)
         IN  /\ board' = r.board
             /\ panicked' = r.panic
             /\ last' = InsertRecord(board, r.board, team, column, roll)
    /\ UNCHANGED <<call, tally, state, strategy_red, strategy_blue, turns, bumps, idle_calls>>

BoardNext == BoardInsert

BoardSpec == BoardInit /\ [][BoardNext]_vars

(***************************************************************************)
(* Properties                                                              *)
(***************************************************************************)
TurnStates == {"RedsTurn", "BluesTurn"}
TurnOf(team) == IF team = "Red" THEN "RedsTurn" ELSE "BluesTurn"
AllOccupied(b, team) == \A i \in HalfIndices(b, team) : b.data[i] # None
ColumnFullPanic == "Collumn does not have a free space!"

\* C1 as stated: a game takes at most 2 * columns * rows turns.
C1_TurnsWithinTwiceCells == turns <= 2 * Columns * Rows

\* C1 amended: every turn fills exactly one cell of the acting side, so the
\* turns taken equal the cells now filled plus the cells bumped so far; a
\* game therefore takes at most 2 * columns * rows turns plus the number of
\* cells bumped, and a finished game took at least 2 * columns * rows - 1.
C1_TurnsAreFilledPlusBumped ==
    /\ turns = Filled(board, "Red") + Filled(board, "Blue") + bumps
    /\ turns <= 2 * Columns * Rows + bumps
    /\ state = "Done" => turns >= 2 * Columns * Rows - 1

\* A finished game that took more than 2 * columns * rows turns.
C1_LongGameFinished ==
    /\ state = "Done"
    /\ panicked = NoPanic
    /\ turns > 2 * Columns * Rows

\* C2 as stated: for every sequence of rolls and choices the state
\* eventually becomes Done.
C2_EventuallyDone == <>(state = "Done")

\* C2 amended: a game in which bumping eventually stops terminates: either
\* the state eventually becomes Done or cells are bumped again and again.
C2_DoneUnlessBumpingForever ==
    <>(state = "Done") \/ []<>(panicked = NoPanic /\ state # "Done" /\ last.cleared > 0)

\* run() has returned from a game in which the last move bumped a cell.
C2_FinishedAfterBump ==
    /\ state = "Done"
    /\ panicked = NoPanic
    /\ last.cleared > 0

C3_DoneIsTerminal_Step ==
    state = "Done" =>
          /\ state' = "Done"
          /\ board' = board
          /\ turns' = turns
          /\ last' = last
          /\ panicked' = NoPanic

\* C3: once the state is Done, a further advance() changes neither the turn
\* state nor any board cell, invokes no strategy and inserts nothing.
C3_DoneIsTerminal == [][C3_DoneIsTerminal_Step]_vars

\* advance() was called MaxIdleCalls times on a finished game.
C3_AdvancedWhileDone ==
    /\ state = "Done"
    /\ idle_calls = MaxIdleCalls
    /\ idle_calls >= 2

C4_TurnTransition_Step ==
    state \in TurnStates =>
          LET team == TeamOf(state)
          IN  /\ panicked' = NoPanic
              /\ last'.team = team
              /\ last'.roll \in Rolls
              /\ last'.column \in 0..(Columns - 1)
              /\ board' = insert(board, team, last'.column, last'.roll).board
              /\ board' # board
              /\ state' = IF AllOccupied(board', team)
                          THEN "Done"
                          ELSE TurnOf(Opponent(team))
              /\ state' # state

\* C4: one advance() in a turn state inserts the rolled value for the side
\* to move, then goes to Done iff that side's half is fully occupied after
\* the insertion and to the opponent's turn otherwise.
C4_TurnTransition == [][C4_TurnTransition_Step]_vars

\* Red's move ended the game after both sides had moved.
C4_RedMoveEndsGame ==
    /\ state = "Done"
    /\ last.team = "Red"
    /\ AllOccupied(board, "Red")
    /\ Filled(board, "Blue") > 0

C5_BumpClearsMirroredMatches_Step ==
    panicked' = NoPanic =>
          LET opp == Opponent(last'.team)
              mirrored == ColumnIndices(board, opp, last'.column)
          IN  \A i \in HalfIndices(board, opp) :
                 board'.data[i] = IF i \in mirrored /\ board.data[i] = last'.roll
                                  THEN None
                                  ELSE board.data[i]

\* C5: insert(side, column, v) clears every cell of the opponent's
\* same-indexed column that holds v and changes no other opponent cell.
C5_BumpClearsMirroredMatches == [][C5_BumpClearsMirroredMatches_Step]_vars

\* One insert cleared several matches and left another opponent cell alone.
C5_SeveralMatchesCleared ==
    /\ panicked = NoPanic
    /\ last.cleared >= 2
    /\ Filled(board, Opponent(last.team)) > 0

C6_Capacity ==
    /\ DOMAIN board.data = 0..(2 * Columns * Rows - 1)
    /\ \A team \in Teams, column \in 0..(Columns - 1) :
          ColumnFilled(board, team, column) <= Rows

C6_NoOverwrite_Step ==
    \A i \in DOMAIN board.data :
       board'.data[i] # None /\ board'.data[i] # board.data[i] => board.data[i] = None

\* C6: after any sequence of insertions no column holds more than rows
\* filled cells, the cell store keeps its size 2 * columns * rows, and the
\* cell an insertion writes was unfilled.
C6_ColumnsWithinCapacity == []C6_Capacity /\ [][C6_NoOverwrite_Step]_vars

\* A column was filled to its capacity after the opponent had bumped it.
C6_ColumnRefilled ==
    /\ panicked = NoPanic
    /\ last.team \in Teams
    /\ last.cleared = 0
    /\ ColumnFilled(board, last.team, last.column) = Rows
    /\ \E column \in 0..(Columns - 1) :
          LET cells == ColumnIndices(board, Opponent(last.team), column)
          IN  \E i, j \in cells : i < j /\ board.data[i] # None /\ board.data[j] = None

C7_InsertIffSpace_Step ==
    last'.column < Columns =>
        LET team == last'.team
            column == last'.column
        IN  /\ has_space(board, team, column) <=> ColumnFilled(board, team, column) < Rows
            /\ IF has_space(board, team, column)
               THEN /\ panicked' = NoPanic
                    /\ \E i \in ColumnIndices(board, team, column) :
                          board.data[i] = None /\ board'.data[i] = last'.roll
               ELSE /\ panicked' = ColumnFullPanic
                    /\ board' = board

\* C7: insert(side, column, v) succeeds exactly when has_space(side, column)
\* holds, gaps included; on a column without an empty cell it panics and
\* leaves the whole board, the opponent's cells included, unmodified.
C7_InsertIffSpace == [][C7_InsertIffSpace_Step]_vars

\* insert panicked on a full column whose mirrored column held the roll.
C7_PanicOnFullColumn ==
    /\ panicked = ColumnFullPanic
    /\ ColumnFilled(board, last.team, last.column) = Rows
    /\ \E i \in ColumnIndices(board, Opponent(last.team), last.column) :
          board.data[i] = last.roll

\* C8: in a game driven by advance() no fatal condition is reached: no
\* panic is raised, and whenever a side is to move it has a column with
\* space, so its strategy has a legal column to return.
C8_NoFatalCondition ==
    /\ panicked = NoPanic
    /\ state \in TurnStates =>
          /\ Len(valid_answers(board, TeamOf(state))) > 0
          /\ ~AllOccupied(board, TeamOf(state))

\* A long game of strategy_min_max against strategy_random is still running.
C8_LongGameRunning ==
    /\ state \in TurnStates
    /\ strategy_red = "strategy_min_max"
    /\ strategy_blue = "strategy_random"
    /\ turns >= 2 * Columns * Rows
    /\ bumps > 0

\* C9: is_board_side_filled(side) holds iff has_space(side, c) fails for
\* every column c, iff every cell of that side's half is occupied.
C9_FilledIffNoSpace ==
    \A team \in Teams :
       /\ is_board_side_filled(board, team)
             <=> \A c \in 0..(Columns - 1) : ~has_space(board, team, c)
       /\ is_board_side_filled(board, team) <=> AllOccupied(board, team)

\* One side is filled while the other has a gap below a filled cell.
C9_FilledBesideGaps ==
    \E team \in Teams :
       /\ is_board_side_filled(board, team)
       /\ \E column \in 0..(Columns - 1) :
             LET cells == ColumnIndices(board, Opponent(team), column)
             IN  \E i, j \in cells : i < j /\ board.data[i] # None /\ board.data[j] = None

Occurrences(b, team, column, v) ==
    Cardinality({i \in ColumnIndices(b, team, column) : b.data[i] = v})

RECURSIVE SumOfSquares(_, _, _, _)
SumOfSquares(b, team, column, v) ==
    IF v = 0
    THEN 0
    ELSE v * Occurrences(b, team, column, v) * Occurrences(b, team, column, v)
         + SumOfSquares(b, team, column, v - 1)

RECURSIVE SumOverColumns(_, _, _)
SumOverColumns(b, team, n) ==
    IF n = 0
    THEN 0
    ELSE SumOfSquares(b, team, n - 1, Faces) + SumOverColumns(b, team, n - 1)

ColumnPermutations ==
    {p \in [0..(Rows - 1) -> 0..(Rows - 1)] : \A j \in 0..(Rows - 1) : \E i \in 0..(Rows - 1) : p[i] = j}

\* The board with the cells of one column rearranged by p.
Rearranged(b, team, column, p) ==
    LET cells == ColumnIndices(b, team, column)
        first == CHOOSE m \in cells : \A n \in cells : m <= n
    IN  [b EXCEPT !.data = [i \in DOMAIN b.data |->
                               IF i \in cells THEN b.data[first + p[i - first]]
                               ELSE b.data[i]]]

\* C10: the score of a column is the sum over the face values v it holds,
\* k times each, of v * k * k, whatever the positions of the values; the
\* score of a side is the sum of the scores of its columns.
C10_ScoreOfMultiset ==
    \A team \in Teams :
       /\ \A column \in 0..(Columns - 1) :
             /\ calculate_column_score(board, team, column)
                   = SumOfSquares(board, team, column, Faces)
             /\ \A p \in ColumnPermutations :
                   calculate_column_score(Rearranged(board, team, column, p), team, column)
                      = calculate_column_score(board, team, column)
       /\ calculate_score(board, team) = SumOverColumns(board, team, Columns)

\* A side with a pair in one column, and a gap and a single in another.
C10_PairAndGap ==
    \E team \in Teams, c, d \in 0..(Columns - 1), v \in Rolls :
       /\ c # d
       /\ Occurrences(board, team, c, v) >= 2
       /\ ColumnFilled(board, team, d) = 1
       /\ calculate_score(board, team) > 4 * v

C15_OneOwnCellFilled_Step ==
    panicked' = NoPanic =>
        LET team == last'.team
            cells == ColumnIndices(board, team, last'.column)
            empties == {i \in cells : board.data[i] = None}
        IN  /\ empties # {}
            /\ \E top \in empties :
                  /\ \A i \in empties : i <= top
                  /\ board'.data[top] = last'.roll
                  /\ \A i \in HalfIndices(board, team) \ {top} :
                        board'.data[i] = board.data[i]
            /\ Filled(board', team) = Filled(board, team) + 1

\* C15: a successful insert(side, column, v) changes exactly one cell of the
\* acting side's half: the highest-index empty cell of the column goes from
\* unfilled to v, every other own cell keeps its value, and the side's
\* filled-cell count rises by exactly one.
C15_OneOwnCellFilled == [][C15_OneOwnCellFilled_Step]_vars

\* An insert that bumped the opponent left its value above an empty cell of
\* its own column, beside another own column that still holds the same value.
C15_FilledAboveEmpty ==
    /\ panicked = NoPanic
    /\ last.team \in Teams
    /\ last.cleared > 0
    /\ \E i, j \in ColumnIndices(board, last.team, last.column) :
          i < j /\ board.data[i] = None /\ board.data[j] = last.roll
    /\ \E i \in HalfIndices(board, last.team) \ ColumnIndices(board, last.team, last.column) :
          board.data[i] = last.roll

\* C19: in every board reached from the empty board by successful inserts,
\* no face value occurs both in Red's column c and in Blue's column c.
C19_MirroredColumnsDisjoint ==
    panicked = NoPanic =>
        \A c \in 0..(Columns - 1), v \in Rolls :
           ~ (/\ \E i \in ColumnIndices(board, "Red", c) : board.data[i] = v
              /\ \E i \in ColumnIndices(board, "Blue", c) : board.data[i] = v)

\* Both mirrored columns of one index are full, after a bump, and a value
\* of one of them is held by the opponent in another column.
C19_FullMirroredColumns ==
    /\ panicked = NoPanic
    /\ last.cleared > 0
    /\ \E c, d \in 0..(Columns - 1), v \in Rolls :
          /\ c # d
          /\ ColumnFilled(board, "Red", c) = Rows
          /\ ColumnFilled(board, "Blue", c) = Rows
          /\ Occurrences(board, "Red", c, v) > 0
          /\ Occurrences(board, "Blue", d, v) > 0

\* C20: in every state reached by advance() from a fresh Game, neither side
\* is filled while the state is RedsTurn or BluesTurn, and when the state is
\* Done exactly one side is filled: the side that made the last move.
C20_FilledOnlyWhenDone ==
    /\ state \in TurnStates =>
          \A team \in Teams : ~ is_board_side_filled(board, team)
    /\ state = "Done" =>
          /\ last.team \in Teams
          /\ is_board_side_filled(board, last.team)
          /\ ~ is_board_side_filled(board, Opponent(last.team))

\* Blue's move ended the game, Red being one cell short.
C20_BlueFilledRedOneShort ==
    /\ state = "Done"
    /\ last.team = "Blue"
    /\ is_board_side_filled(board, "Blue")
    /\ Filled(board, "Red") = Columns * Rows - 1

C17_EitherSideMayStart ==
    state = "Starting" =>
        /\ board = empty_board(Columns, Rows)
        /\ turns = 0
        /\ ENABLED (AdvanceStarting /\ state' = "RedsTurn")
        /\ ENABLED (AdvanceStarting /\ state' = "BluesTurn")

C17_OneTransition_Step ==
    /\ state = "Starting" =>
          /\ state' \in TurnStates
          /\ board' = board
          /\ turns' = turns
          /\ last' = NoInsert
    /\ state \in TurnStates =>
          /\ turns' = turns + 1
          /\ last'.team = TeamOf(state)
          /\ Filled(board', TeamOf(state)) = Filled(board, TeamOf(state)) + 1
          /\ state' \in {"Done", TurnOf(Opponent(TeamOf(state)))}

\* C17: advance() performs one transition per call.  On a fresh Game the
\* first call only sets the state to RedsTurn or BluesTurn, either being
\* possible, and leaves the board empty with no turn taken; a call in a turn
\* state takes exactly one turn (one own cell filled) and changes the state
\* exactly once.
C17_OneTransition == []C17_EitherSideMayStart /\ [][C17_OneTransition_Step]_vars

\* Blue won the coin toss and has made the first insertion of the game.
C17_BlueMovedFirst ==
    /\ state = "RedsTurn"
    /\ turns = 1
    /\ last.team = "Blue"
    /\ Filled(board, "Blue") = 1
    /\ Filled(board, "Red") = 0

(***************************************************************************)
(* Queries and strategies under any caller: the board is built by          *)
(* successful inserts of either side in any order; has_space,              *)
(* calculate_column_score and insert are called with any column index up   *)
(* to columns, the strategies with any game state, roll and random index.  *)
(* call records the last such call made since the last successful insert.  *)
(***************************************************************************)
GameStates == {"Starting", "RedsTurn", "BluesTurn", "Done"}

ColumnAssertPanic == "assertion failed: column < self.columns"
GetColumnAssertPanic == "request collumn does not exist."
NoTurnPanic == "Cannot take a turn in this game state."
EmptyRangePanic == "cannot sample empty range"

\* The cells the loop of has_space reads: the column up to its first empty cell.
has_space_reads(b, team, column) ==
    LET cells == ColumnIndices(b, team, column)
    IN  {i \in cells : \A j \in cells : j < i => b.data[j] # None}

\* has_space as its caller sees it: the assertion, then the answer.
has_space_call(b, team, column) ==
    IF ~(column < b.columns)
    THEN [space |-> FALSE, panic |-> ColumnAssertPanic, touched |-> {}]
    ELSE [space |-> has_space(b, team, column), panic |-> NoPanic,
          touched |-> has_space_reads(b, team, column)]

\* calculate_column_score as its caller sees it: the assertion of
\* get_column, then the score.
calculate_column_score_call(b, team, column) ==
    IF ~(column < b.columns)
    THEN [value |-> 0, panic |-> GetColumnAssertPanic, touched |-> {}]
    ELSE [value |-> calculate_column_score(b, team, column), panic |-> NoPanic,
          touched |-> ColumnIndices(b, team, column)]

CallInsert ==
    /\ panicked = NoPanic
    /\ \E team \in Teams, column \in 0..Columns, roll \in Rolls :
         \E r \in {insert(board, team, column, roll)} :
            /\ board' = r.board
            /\ panicked' = r.panic
            /\ call' = IF r.panic = NoPanic
                       THEN NoCall
                       ELSE [NoCall EXCEPT !.op = "insert", !.team = team,
                                           !.column = column, !.roll = roll,
                                           !.panic = r.panic,
                                           !.touched = {i \in DOMAIN board.data :
                                                          r.board.data[i] # board.data[i]}]
    /\ UNCHANGED <<state, strategy_red, strategy_blue, turns, bumps, idle_calls,
                   last, tally>>

CallHasSpace ==
    /\ panicked = NoPanic
    /\ \E team \in Teams, column \in 0..Columns :
         \E r \in {has_space_call(board, team, column)} :
            /\ panicked' = r.panic
            /\ call' = [NoCall EXCEPT !.op = "has_space", !.team = team,
                                      !.column = column, !.space = r.space,
                                      !.panic = r.panic, !.touched = r.touched]
    /\ UNCHANGED <<board, state, strategy_red, strategy_blue, turns, bumps,
                   idle_calls, last, tally>>

CallColumnScore ==
    /\ panicked = NoPanic
    /\ \E team \in Teams, column \in 0..Columns :
         \E r \in {calculate_column_score_call(board, team, column)} :
            /\ panicked' = r.panic
            /\ call' = [NoCall EXCEPT !.op = "calculate_column_score", !.team = team,
                                      !.column = column, !.value = r.value,
                                      !.panic = r.panic, !.touched = r.touched]
    /\ UNCHANGED <<board, state, strategy_red, strategy_blue, turns, bumps,
                   idle_calls, last, tally>>

\* One call strategy(&board, &st, &roll): the column returned for the random
\* index drawn, or the panic raised.  The board is borrowed immutably.
CallStrategy ==
    /\ panicked = NoPanic
    /\ \E strategy \in Strategies, st \in GameStates, roll \in Rolls :
         LET made == [NoCall EXCEPT !.op = strategy, !.st = st, !.roll = roll]
         IN  IF st \notin {"RedsTurn", "BluesTurn"}
             THEN call' = [made EXCEPT !.panic = NoTurnPanic]
             ELSE \E answers \in {valid_answers(board, TeamOf(st))} :
                    IF Len(answers) = 0
                    THEN call' = [made EXCEPT !.team = TeamOf(st),
                                              !.panic = EmptyRangePanic]
                    ELSE \E index \in 0..(Len(answers) - 1) :
                           call' = [made EXCEPT
                                      !.team = TeamOf(st),
                                      !.index = index,
                                      !.column = IF strategy = "strategy_random"
                                                 THEN strategy_random(board, st, index)
                                                 ELSE strategy_min_max(board, st, roll, index)]
    /\ panicked' = call'.panic
    /\ UNCHANGED <<board, state, strategy_red, strategy_blue, turns, bumps,
                   idle_calls, last, tally>>

CallNext ==
    \/ CallInsert
    \/ CallHasSpace
    \/ CallColumnScore
    \/ CallStrategy

CallSpec == BoardInit /\ [][CallNext]_vars

\* The legal columns of a side and the improvement of each, measured on the
\* cells: the differential of the scores after the insertion minus the
\* differential before it.
LegalColumns(b, team) ==
    {c \in 0..(Columns - 1) : ColumnFilled(b, team, c) < Rows}

Differential(b, team) ==
    SumOverColumns(b, team, Columns) - SumOverColumns(b, Opponent(team), Columns)

ImprovementOf(b, team, c, roll) ==
    Differential(insert(b, team, c, roll).board, team) - Differential(b, team)

IsMaxImprovement(b, team, c, roll) ==
    \A d \in LegalColumns(b, team) :
       ImprovementOf(b, team, d, roll) <= ImprovementOf(b, team, c, roll)

\* C11: strategy_min_max returns the lowest-index legal column whose
\* improvement is the maximum over the legal columns if that maximum exceeds
\* the roll, and the randomly pre-selected legal column otherwise; a later
\* column with an improvement equal to the best never replaces an earlier one.
C11_LowestBestOrPreselected ==
    call.op = "strategy_min_max" /\ call.panic = NoPanic =>
        LET team == call.team
            legal == LegalColumns(board, team)
            best == {c \in legal : IsMaxImprovement(board, team, c, call.roll)}
        IN  /\ best # {}
            /\ IF \E c \in best : ImprovementOf(board, team, c, call.roll) > call.roll
               THEN /\ call.column \in best
                    /\ \A c \in best : call.column <= c
               ELSE call.column = valid_answers(board, team)[call.index + 1]

\* Two legal columns tie at an improvement above the roll; the random index
\* had pre-selected the later one and the earlier one was returned.
C11_TieKeepsEarlier ==
    /\ call.op = "strategy_min_max"
    /\ call.panic = NoPanic
    /\ call.index = 1
    /\ \E c \in LegalColumns(board, call.team) :
          /\ call.column < c
          /\ c = valid_answers(board, call.team)[call.index + 1]
          /\ IsMaxImprovement(board, call.team, c, call.roll)
          /\ ImprovementOf(board, call.team, c, call.roll) > call.roll

\* No legal column improves by more than the roll; the pre-selected column,
\* not the first legal one, was returned.
C11_FallbackToPreselected ==
    /\ call.op = "strategy_min_max"
    /\ call.panic = NoPanic
    /\ call.index = 1
    /\ call.column = valid_answers(board, call.team)[2]
    /\ \A c \in LegalColumns(board, call.team) :
          ImprovementOf(board, call.team, c, call.roll) <= call.roll

\* The legal columns in which inserting roll clears a whole mirrored column:
\* every one of the opponent's rows cells there holds the roll (3 cells on
\* the 3 x 3 board of Game::new).
ClearingColumns(b, team, roll) ==
    {c \in LegalColumns(b, team) : Occurrences(b, Opponent(team), c, roll) = Rows}

C16_LegalColumn ==
    /\ call.op \in Strategies
    /\ call.st \in TurnStates
    /\ LegalColumns(board, TeamOf(call.st)) # {}
    => /\ call.panic = NoPanic
       /\ call.column \in 0..(Columns - 1)
       /\ has_space(board, TeamOf(call.st), call.column)
       /\ call.column \in LegalColumns(board, TeamOf(call.st))

C16_BoardUntouched_Step ==
    call'.op \in Strategies /\ call' # call => board' = board

\* C16: on every board where the side to move has a column with space, in
\* every turn state and for every roll, strategy_random and strategy_min_max
\* return a column below columns for which has_space holds, and the board
\* passed to the strategy is left unchanged.
C16_StrategiesReturnLegalColumn == []C16_LegalColumn /\ [][C16_BoardUntouched_Step]_vars

\* strategy_random returned the only legal column, a lower column being
\* full, on a board whose cells the opponent would have lost to the roll.
C16_OnlyLegalColumnReturned ==
    /\ call.op = "strategy_random"
    /\ call.panic = NoPanic
    /\ call.column > 0
    /\ LegalColumns(board, call.team) = {call.column}
    /\ Occurrences(board, Opponent(call.team), call.column, call.roll) > 0

C14_OutOfRangeHalts_Step ==
    /\ panicked = NoPanic
    /\ call' # call /\ call'.column >= Columns
          /\ call'.op \in {"has_space", "insert", "calculate_column_score"}
       => /\ call'.panic = IF call'.op = "calculate_column_score"
                           THEN GetColumnAssertPanic
                           ELSE ColumnAssertPanic
          /\ panicked' = call'.panic
          /\ call'.touched = {}
          /\ board' = board

\* C14: has_space, insert and calculate_column_score called with
\* column >= columns halt with a failed assertion: no cell is read or
\* written, the board is as it was, and nothing runs after the panic.
C14_OutOfRangeHalts == [][C14_OutOfRangeHalts_Step]_vars

\* Red's insert into column index columns was refused; unchecked, its scan
\* would have started in Blue's first column, which has an empty cell.
C14_InsertPastLastColumn ==
    /\ call.op = "insert"
    /\ call.team = "Red"
    /\ call.column = Columns
    /\ panicked = ColumnAssertPanic
    /\ ColumnFilled(board, "Blue", 0) < Rows
    /\ Filled(board, "Red") > 0

\* has_space on column index columns was refused.
C14_HasSpacePastLastColumn ==
    /\ call.op = "has_space"
    /\ call.column = Columns
    /\ panicked = ColumnAssertPanic
    /\ Filled(board, call.team) > 0

\* calculate_column_score on column index columns was refused.
C14_ScorePastLastColumn ==
    /\ call.op = "calculate_column_score"
    /\ call.column = Columns
    /\ panicked = GetColumnAssertPanic
    /\ Filled(board, call.team) > 0

(***************************************************************************)
(* The board of Game::new, 3 x 3 with a six-faced die, under its first     *)
(* inserts: either side, any column, any face.  turns counts the inserts.  *)
(***************************************************************************)
GameColumns == 3
GameRows == 3
DieFaces == 6
ScenarioInserts == 2

ScenarioInit ==
    /\ board = empty_board(GameColumns, GameRows)
    /\ state = "Starting"
    /\ strategy_red = "strategy_min_max"
    /\ strategy_blue = "strategy_random"
    /\ panicked = NoPanic
    /\ turns = 0
    /\ bumps = 0
    /\ idle_calls = 0
    /\ last = NoInsert
    /\ call = NoCall
    /\ tally = NoTally

ScenarioInsert ==
    /\ panicked = NoPanic
    /\ turns < ScenarioInserts
    /\ \E team \in Teams, column \in 0..(GameColumns - 1), roll \in 1..DieFaces :
         \E r \in {insert(board, team, column, roll)} :
            /\ board' = r.board
            /\ panicked' = r.panic
            /\ last' = InsertRecord(board, r.board, team, column, roll)
    /\ turns' = turns + 1
    /\ UNCHANGED <<state, strategy_red, strategy_blue, bumps, idle_calls, call, tally>>

ScenarioNext == ScenarioInsert

ScenarioSpec == ScenarioInit /\ [][ScenarioNext]_vars

C13_BumpScenario_Step ==
    /\ turns = 1 /\ last.column = 0 /\ last.roll = 4
    /\ turns' = 2 /\ last'.column = 0 /\ last'.roll = 4
    /\ last'.team = Opponent(last.team)
    => LET A == last.team
           B == last'.team
       IN  /\ panicked' = NoPanic
           /\ Occurrences(board, A, 0, 4) = 1
           /\ Occurrences(board', A, 0, 4) = 0
           /\ Occurrences(board', B, 0, 4) = 1
           /\ Filled(board', A) = 0
           /\ Filled(board', B) = 1
           /\ calculate_score(board', A) = 0
           /\ calculate_score(board', B) = 4

\* C13: on a fresh 3 x 3 board, after side A inserts 4 into column 0 and
\* side B then inserts 4 into column 0, A's column 0 no longer holds the 4,
\* B's column 0 holds it, and the scores are 0 for A and 4 for B.
C13_BumpScenario == [][C13_BumpScenario_Step]_vars

\* Red's 4 in column 0, the first insert, was bumped by Blue's 4, the second.
C13_RedBumpedByBlue ==
    /\ turns = 2
    /\ last = [team |-> "Blue", column |-> 0, roll |-> 4, cleared |-> 1]
    /\ board.columns = 3 /\ board.rows = 3
    /\ Filled(board, "Red") = 0
    /\ calculate_score(board, "Blue") = 4

(***************************************************************************)
(* The simulation driver of main.rs: main spawns the workers, each worker  *)
(* runs run_games on a TotalWins of its own, main joins the workers in     *)
(* spawn order and adds up what they return.  A game is seen through the   *)
(* pair of scores run() returns.  Workers run in any interleaving.         *)
(***************************************************************************)
Threads == 2
GamesPerThread == 2
MaxScore == 1

Scores == 0..MaxScore

TotalWins_new == [red_wins |-> 0, blue_wins |-> 0, ties |-> 0]

\* Faulty variant: add without the ties of the other tally.
TotalWins_add_drops_ties(self, other) ==
    [red_wins |-> self.red_wins + other.red_wins,
     blue_wins |-> self.blue_wins + other.blue_wins,
     ties |-> self.ties]

TotalWins_add(self, other) ==
    [red_wins |-> self.red_wins + other.red_wins,
     blue_wins |-> self.blue_wins + other.blue_wins,
     ties |-> self.ties + other.ties]

\* The body of the loop of run_games for one game with the given scores.
count_game(result, scores) ==
    IF scores[1] > scores[2]
    THEN [result EXCEPT !.red_wins = @ + 1]
    ELSE IF scores[1] < scores[2]
         THEN [result EXCEPT !.blue_wins = @ + 1]
         ELSE [result EXCEPT !.ties = @ + 1]

\* A worker as spawned: run_games has made its TotalWins and played no game.
NewWorker == [result |-> TotalWins_new, played |-> 0, scores |-> <<0, 0>>]

Spawn ==
    /\ tally.spawned < Threads
    /\ tally' = [tally EXCEPT !.spawned = @ + 1,
                              !.workers = Append(@, NewWorker)]
    /\ UNCHANGED <<board, state, strategy_red, strategy_blue, panicked,
                   turns, bumps, idle_calls, last, call>>

WorkerGame ==
    /\ \E w \in 1..Len(tally.workers), scores \in Scores \X Scores :
          /\ tally.workers[w].played < GamesPerThread
          /\ tally' = [tally EXCEPT
                          !.workers[w] = [result |-> count_game(@.result, scores),
                                          played |-> @.played + 1,
                                          scores |-> scores]]
    /\ UNCHANGED <<board, state, strategy_red, strategy_blue, panicked,
                   turns, bumps, idle_calls, last, call>>

\* handle.join() returns once the worker has returned from run_games.
Join ==
    /\ tally.spawned = Threads
    /\ tally.joined < Threads
    /\ tally.workers[tally.joined + 1].played = GamesPerThread
    /\ tally' = [tally EXCEPT
                    !.joined = @ + 1,
                    !.result = TotalWins_add(@, tally.workers[tally.joined + 1].result)]
    /\ UNCHANGED <<board, state, strategy_red, strategy_blue, panicked,
                   turns, bumps, idle_calls, last, call>>

TallyNext ==
    \/ Spawn
    \/ WorkerGame
    \/ Join

TallySpec == BoardInit /\ [][TallyNext]_vars

Games(t) == t.red_wins + t.blue_wins + t.ties

RECURSIVE SumOfTallies(_, _)
SumOfTallies(workers, n) ==
    IF n = 0
    THEN [red_wins |-> 0, blue_wins |-> 0, ties |-> 0]
    ELSE LET rest == SumOfTallies(workers, n - 1)
         IN  [red_wins |-> rest.red_wins + workers[n].result.red_wins,
              blue_wins |-> rest.blue_wins + workers[n].result.blue_wins,
              ties |-> rest.ties + workers[n].result.ties]

C18_ResultIsSum ==
    /\ tally.result = SumOfTallies(tally.workers, tally.joined)
    /\ \A w \in 1..Len(tally.workers) :
          Games(tally.workers[w].result) = tally.workers[w].played
    /\ tally.joined = Threads =>
          /\ tally.result = SumOfTallies(tally.workers, Threads)
          /\ Games(tally.result) = Threads * GamesPerThread

C18_OneCounterPerGame_Step ==
    \A w \in 1..Len(tally.workers) :
       tally'.workers[w] # tally.workers[w] =>
          LET old == tally.workers[w].result
              new == tally'.workers[w].result
              scores == tally'.workers[w].scores
              d == [red_wins |-> new.red_wins - old.red_wins,
                    blue_wins |-> new.blue_wins - old.blue_wins,
                    ties |-> new.ties - old.ties]
          IN  /\ tally'.workers[w].played = tally.workers[w].played + 1
              /\ d = [red_wins |-> IF scores[1] > scores[2] THEN 1 ELSE 0,
                      blue_wins |-> IF scores[1] < scores[2] THEN 1 ELSE 0,
                      ties |-> IF scores[1] = scores[2] THEN 1 ELSE 0]
              /\ tally'.result = tally.result
              /\ \A u \in 1..Len(tally.workers) :
                    u # w => tally'.workers[u] = tally.workers[u]

\* C18: every finished game raises exactly one of red_wins, blue_wins and
\* ties of its worker (red if score_red > score_blue, blue if less, tie if
\* equal) and touches no other worker's tally nor main's result; main's
\* result is the component-wise sum of the tallies joined so far, and once
\* all workers are joined red_wins + blue_wins + ties = threads *
\* games_per_thread, in whatever order the workers ran.
C18_TallyIsSum == []C18_ResultIsSum /\ [][C18_OneCounterPerGame_Step]_vars

\* All workers are joined; their tallies differ and the result has red
\* wins, blue wins and ties.
C18_AllJoinedMixedResult ==
    /\ tally.joined = Threads
    /\ tally.result.red_wins > 0
    /\ tally.result.blue_wins > 0
    /\ tally.result.ties > 0
    /\ \E u, w \in 1..Len(tally.workers) :
          tally.workers[u].result # tally.workers[w].result

C21_InsertionNeverHurts ==
    panicked = NoPanic =>
        \A team \in Teams, roll \in Rolls :
           \A c \in LegalColumns(board, team) :
              LET after == insert(board, team, c, roll).board
              IN  /\ SumOverColumns(after, team, Columns)
                        >= SumOverColumns(board, team, Columns) + roll
                  /\ SumOverColumns(after, Opponent(team), Columns)
                        <= SumOverColumns(board, Opponent(team), Columns)
                  /\ ImprovementOf(board, team, c, roll) >= roll

C21_ReturnedAttainsMaximum ==
    call.op = "strategy_min_max" /\ call.panic = NoPanic =>
        LET team == call.team
            legal == LegalColumns(board, team)
        IN  /\ call.column \in legal
            /\ IsMaxImprovement(board, team, call.column, call.roll)
            /\ ImprovementOf(board, team, call.column, call.roll) <= call.roll
                  => \A c \in legal :
                        ImprovementOf(board, team, c, call.roll) = call.roll

\* C21: on every reachable board the improvement of every legal column is
\* at least the roll (an insertion never lowers the acting side's score nor
\* raises the opponent's), so the random fallback is taken only when all
\* legal columns tie at exactly the roll, and the column strategy_min_max
\* returns always attains the maximum improvement over the legal columns.
C21_ImprovementAtLeastRoll == C21_InsertionNeverHurts /\ C21_ReturnedAttainsMaximum

\* The returned column improves by more than an earlier legal column that
\* itself improves by more than the roll.
C21_LaterColumnBetter ==
    /\ call.op = "strategy_min_max"
    /\ call.panic = NoPanic
    /\ \E c \in LegalColumns(board, call.team) :
          /\ c < call.column
          /\ ImprovementOf(board, call.team, c, call.roll) > call.roll
          /\ ImprovementOf(board, call.team, c, call.roll)
                < ImprovementOf(board, call.team, call.column, call.roll)

\* The fallback was taken: every legal column, several of them, improves by
\* exactly the roll and the pre-selected later column was returned.
C21_AllTieAtRoll ==
    /\ call.op = "strategy_min_max"
    /\ call.panic = NoPanic
    /\ call.index > 0
    /\ call.column = valid_answers(board, call.team)[call.index + 1]
    /\ Filled(board, Opponent(call.team)) > 0
    /\ \A c \in LegalColumns(board, call.team) :
          ImprovementOf(board, call.team, c, call.roll) = call.roll

====
